---- MODULE Spec2Model ----
(***************************************************************************)
(* A model of bionic's EntityResolver (src/bionic/resolver.py): the static *)
(* task graph built from a flow's providers, the two readiness levels, the *)
(* LIFO work-list that drives evaluation, and task evaluation against the  *)
(* in-memory results and the persistent cache.                             *)
(***************************************************************************)
EXTENDS Integers, Sequences, FiniteSets, TLC

\* ------------------------------------------------------------------------
\* Optional values: Python's None, and a present value.
None == <<>>
Some(x) == <<x>>
IsNone(o) == o = <<>>
Get(o) == o[1]

\* The element of a one-element set. A stage of an operator below passes
\* its result on as {F(x) : x \in {stage}}, so that TLC evaluates it once.
Only(S) == CHOOSE x \in S : TRUE

RECURSIVE SumSeq(_)
SumSeq(s) == IF s = <<>> THEN 0 ELSE Head(s) + SumSeq(Tail(s))

SeqToSet(s) == {s[i] : i \in DOMAIN s}

MaxOf(S) == CHOOSE m \in S : \A x \in S : x <= m

\* A Python dict built from a list of (key, value) pairs: the last pair of
\* a key wins.
DictFromPairs(pairs) ==
    [k \in {pairs[i][1] : i \in DOMAIN pairs} |->
        pairs[MaxOf({i \in DOMAIN pairs : pairs[i][1] = k})][2]]

\* ------------------------------------------------------------------------
\* The flow: the providers a resolver is constructed over.

PersistentCacheName == "core__persistent_cache"

TaskKey(name, case) == [entity_name |-> name, case_key |-> case]

Task(keys, dep_keys, simple, base, raises) ==
    [keys |-> keys, dep_keys |-> dep_keys, is_simple_lookup |-> simple,
     base |-> base, raises |-> raises]

Provider(names, deps, persist, code, tasks, invalid) ==
    [names |-> names, deps |-> deps, should_persist |-> persist,
     code_id |-> code, tasks |-> tasks, invalid |-> invalid]

\* One provider producing one entity with the single empty case key.
Single(name, deps, persist, code, base, raises, invalid) ==
    Provider(<<name>>, deps, persist, code,
             <<Task(<<TaskKey(name, 0)>>,
                    [i \in DOMAIN deps |-> TaskKey(deps[i], 0)],
                    deps = <<>>, base, raises)>>,
             invalid)

\* Providers of the internal entities, in the variants the bootstrap
\* distinguishes.
CoreOne == PersistentCacheName :> Single(PersistentCacheName, <<>>, FALSE, 1, 100, FALSE, {})

CoreZero ==
    PersistentCacheName :> Provider(<<PersistentCacheName>>, <<>>, FALSE, 1, <<>>, {})

CoreTwo ==
    PersistentCacheName :>
        Provider(<<PersistentCacheName>>, <<>>, FALSE, 1,
                 <<Task(<<TaskKey(PersistentCacheName, 1)>>, <<>>, TRUE, 100, FALSE),
                   Task(<<TaskKey(PersistentCacheName, 2)>>, <<>>, TRUE, 101, FALSE)>>,
                 {})

\* The persistent cache built from an entity of the user's.
CoreOnUser ==
    PersistentCacheName :> Single(PersistentCacheName, <<"a">>, FALSE, 1, 0, FALSE, {})

CoreDir(dirPersist, cachePersist) ==
    (PersistentCacheName :>
        Single(PersistentCacheName, <<"core__dir">>, cachePersist, 1, 0, FALSE, {}))
    @@ ("core__dir" :> Single("core__dir", <<>>, dirPersist, 2, 50, FALSE, {}))

\* The persistent cache built from a core__dir whose compute may raise
\* (`raises`) or whose value its protocol rejects (`invalid`).
CoreDirFailing(raises, invalid) ==
    (PersistentCacheName :>
        Single(PersistentCacheName, <<"core__dir">>, FALSE, 1, 0, FALSE, {}))
    @@ ("core__dir" :> Single("core__dir", <<>>, FALSE, 2, 50, raises, invalid))

\* Providers of the user's entities.
Chain(P, raising, invalid) ==
    ("a" :> Single("a", <<>>, "a" \in P, 3, 7, "a" \in raising, invalid))
    @@ ("b" :> Single("b", <<"a">>, "b" \in P, 4, 1, "b" \in raising, invalid))
    @@ ("c" :> Single("c", <<"b">>, "c" \in P, 5, 0, "c" \in raising, invalid))

Diamond(P) ==
    ("a" :> Single("a", <<>>, "a" \in P, 3, 7, FALSE, {}))
    @@ ("b" :> Single("b", <<"a">>, "b" \in P, 4, 1, FALSE, {}))
    @@ ("c" :> Single("c", <<"a">>, "c" \in P, 5, 2, FALSE, {}))
    @@ ("d" :> Single("d", <<"b", "c">>, "d" \in P, 6, 0, FALSE, {}))

\* The diamond with a "c" whose compute may raise.
DiamondFailing ==
    ("c" :> Single("c", <<"a">>, FALSE, 5, 2, TRUE, {})) @@ Diamond({})

JointProvider(persist, invalid) ==
    Provider(<<"u", "v">>, <<"a">>, persist, 4,
             <<Task(<<TaskKey("u", 0), TaskKey("v", 0)>>, <<TaskKey("a", 0)>>,
                    FALSE, 3, FALSE)>>,
             invalid)

Joint(P, invalid) ==
    ("a" :> Single("a", <<>>, "a" \in P, 3, 7, FALSE, {}))
    @@ ("u" :> JointProvider("u" \in P, invalid))
    @@ ("v" :> JointProvider("u" \in P, invalid))
    @@ ("w" :> Single("w", <<"v">>, "w" \in P, 5, 1, FALSE, {}))

Param(P) ==
    ("p" :> Provider(<<"p">>, <<>>, "p" \in P, 3,
                     <<Task(<<TaskKey("p", 1)>>, <<>>, TRUE, 11, FALSE),
                       Task(<<TaskKey("p", 2)>>, <<>>, TRUE, 21, FALSE)>>, {}))
    @@ ("q" :> Provider(<<"q">>, <<"p">>, "q" \in P, 4,
                     <<Task(<<TaskKey("q", 1)>>, <<TaskKey("p", 1)>>, FALSE, 0, FALSE),
                       Task(<<TaskKey("q", 2)>>, <<TaskKey("p", 2)>>, FALSE, 0, FALSE)>>, {}))
    @@ ("g" :> Provider(<<"g">>, <<"p">>, "g" \in P, 5,
                     <<Task(<<TaskKey("g", 0)>>, <<TaskKey("p", 1), TaskKey("p", 2)>>,
                            FALSE, 1, FALSE)>>, {}))

\* Providers that depend on each other in a cycle ("x" and "y"), and a
\* provider that names a dependency nobody provides ("b" needs "n").
Broken ==
    ("a" :> Single("a", <<>>, FALSE, 3, 7, FALSE, {}))
    @@ ("x" :> Single("x", <<"y">>, FALSE, 4, 1, FALSE, {}))
    @@ ("y" :> Single("y", <<"x">>, FALSE, 5, 1, FALSE, {}))

Dangling ==
    ("a" :> Single("a", <<>>, FALSE, 3, 7, FALSE, {}))
    @@ ("b" :> Single("b", <<"n">>, FALSE, 4, 1, FALSE, {}))

\* A flow: providers_by_name and the order its keys() iterates in.
Flow(order, providers) == [order |-> order, providers_by_name |-> providers]

Flows ==
    {Flow(<<"c", PersistentCacheName, "a", "b">>, CoreOne @@ Chain(P, {}, {})) :
        P \in {{}, {"b"}, {"a", "c"}}}
    \cup {Flow(<<"a", "b", "c", PersistentCacheName>>, CoreOne @@ Chain({"c"}, {"b"}, {}))}
    \cup {Flow(<<"a", "b", "c", PersistentCacheName>>, CoreOne @@ Chain({"b"}, {}, {<<"b", 15>>}))}
    \cup {Flow(<<PersistentCacheName, "d", "c", "b", "a">>, CoreOne @@ Diamond(P)) :
        P \in {{}, {"a", "d"}}}
    \cup {Flow(<<PersistentCacheName, "d", "c", "b", "a">>, CoreOne @@ DiamondFailing)}
    \cup {Flow(<<"w", "u", "v", "a", PersistentCacheName>>, CoreOne @@ Joint(P, {})) :
        P \in {{}, {"u"}, {"u", "w"}}}
    \cup {Flow(<<"w", "u", "v", "a", PersistentCacheName>>, CoreOne @@ Joint(P, {bad})) :
        P \in {{}, {"u"}}, bad \in {<<"u", 17>>, <<"v", 18>>}}
    \cup {Flow(<<"a", "b", "c", PersistentCacheName>>, CoreOnUser @@ Chain({"b"}, {}, {}))}
    \cup {Flow(<<PersistentCacheName, "g", "q", "p">>, CoreOne @@ Param(P)) :
        P \in {{}, {"p", "g"}}}
    \cup {Flow(<<"a", "b", "c", PersistentCacheName>>, core @@ Chain({"b"}, {}, {})) :
        core \in {CoreZero, CoreTwo}}
    \cup {Flow(<<"a", "b", "c", PersistentCacheName, "core__dir">>,
               CoreDir(dp, cp) @@ Chain({"b"}, {}, {})) :
        dp \in BOOLEAN, cp \in BOOLEAN}
    \cup {Flow(<<"a", "b", "c", PersistentCacheName, "core__dir">>,
               CoreDirFailing(TRUE, {}) @@ Chain({"b"}, {}, {}))}
    \cup {Flow(<<"a", "b", "c", PersistentCacheName, "core__dir">>,
               CoreDirFailing(FALSE, {<<"core__dir", 50>>}) @@ Chain({"b"}, {}, {}))}
    \cup {Flow(<<"a", "b", "c">>, Chain({}, {}, {}))}
    \cup {Flow(<<"a", PersistentCacheName, "x", "y">>, CoreOne @@ Broken)}
    \cup {Flow(<<"a", PersistentCacheName, "b">>, CoreOne @@ Dangling)}

\* ------------------------------------------------------------------------
\* Graph build.

\* The depth at which the interpreter stops a recursion (RecursionError).
RecursionLimit == 6

\* provider.get_key_space: the case keys of the provider's tasks.
GetKeySpace(provider) ==
    [i \in DOMAIN provider.tasks |-> provider.tasks[i].keys[1].case_key]

\* provider.get_tasks: the tasks of the provider, new objects on each call.
GetTasks(provider) == provider.tasks

EmptyInfo == [order |-> <<>>, task_lists |-> <<>>, key_spaces |-> <<>>, err |-> ""]

RECURSIVE PopulateEntityInfo(_, _, _, _)
RECURSIVE PopulateAll(_, _, _, _)

\* _populate_entity_info for each name of a list, in order.
PopulateAll(flow, info, names, depth) ==
    IF names = <<>> \/ info.err # "" THEN info
    ELSE PopulateAll(flow, PopulateEntityInfo(flow, info, Head(names), depth),
                     Tail(names), depth)

PopulateEntityInfo(flow, info, entity_name, depth) ==
    IF entity_name \in DOMAIN info.task_lists THEN info
    ELSE IF depth > RecursionLimit THEN [info EXCEPT !.err = "RecursionError"]
    ELSE IF entity_name \notin DOMAIN flow.providers_by_name
         THEN [info EXCEPT !.err = "UndefinedEntityError"]
    ELSE LET provider == flow.providers_by_name[entity_name]
             after == PopulateAll(flow, info, provider.deps, depth + 1)
         IN IF after.err # "" THEN after
            ELSE [order |-> Append(after.order, entity_name),
                  task_lists |-> (entity_name :> GetTasks(provider)) @@ after.task_lists,
                  key_spaces |-> (entity_name :> GetKeySpace(provider)) @@ after.key_spaces,
                  err |-> ""]

TaskState(task) ==
    [task |-> task, results_by_name |-> None, parents |-> <<>>, children |-> <<>>]

\* The tasks of task_lists_by_entity_name.values(), in iteration order.
RECURSIVE FlatTasks(_, _)
FlatTasks(info, names) ==
    IF names = <<>> THEN <<>>
    ELSE info.task_lists[Head(names)] \o FlatTasks(info, Tail(names))

\* Mutant: only a task's first key is overwritten by a later task's state.
MinOf(S) == CHOOSE m \in S : \A x \in S : m <= x

StatesByKeyKeepFirst(flat) ==
    [k \in UNION {SeqToSet(flat[i].keys) : i \in DOMAIN flat} |->
        IF \E i \in DOMAIN flat : flat[i].keys[1] = k
        THEN MaxOf({i \in DOMAIN flat : flat[i].keys[1] = k})
        ELSE MinOf({i \in DOMAIN flat : k \in SeqToSet(flat[i].keys)})]

\* task_states_by_key after the loop that creates a TaskState per task: a
\* later task's state replaces an earlier one under the same key.
StatesByKey(flat) ==
    [k \in UNION {SeqToSet(flat[i].keys) : i \in DOMAIN flat} |->
        MaxOf({i \in DOMAIN flat : k \in SeqToSet(flat[i].keys)})]

RECURSIVE WireDeps(_, _, _, _)
WireDeps(states, byKey, task, j) ==
    IF j > Len(task.dep_keys) THEN states
    ELSE LET ts == byKey[task.keys[1]]
             ds == byKey[task.dep_keys[j]]
             s1 == [states EXCEPT ![ts].parents = Append(@, ds)]
             s2 == [s1 EXCEPT ![ds].children = Append(@, ts)]
         IN WireDeps(s2, byKey, task, j + 1)

RECURSIVE WireTasks(_, _, _, _)
WireTasks(states, byKey, flat, i) ==
    IF i > Len(flat) THEN states
    ELSE WireTasks(WireDeps(states, byKey, flat[i], 1), byKey, flat, i + 1)

\* Mutant: the task states are created but not connected to each other.
BuildGraphUnwired(flow) ==
    LET info == PopulateAll(flow, EmptyInfo, flow.order, 1)
        flat == FlatTasks(info, info.order)
    IN IF info.err # ""
       THEN [err |-> info.err, info |-> info, task_states |-> <<>>,
             task_states_by_key |-> <<>>]
       ELSE [err |-> "", info |-> info,
             task_states |-> [i \in DOMAIN flat |-> TaskState(flat[i])],
             task_states_by_key |-> StatesByKey(flat)]

\* _get_ready_for_bootstrap_resolution up to the flag: the entity info, the
\* task states and their wiring, or the error that ended it.
BuildGraph(flow) ==
    LET info == PopulateAll(flow, EmptyInfo, flow.order, 1)
        flat == FlatTasks(info, info.order)
        byKey == StatesByKey(flat)
        fresh == [i \in DOMAIN flat |-> TaskState(flat[i])]
    IN IF info.err # ""
       THEN [err |-> info.err, info |-> info, task_states |-> <<>>,
             task_states_by_key |-> <<>>]
       ELSE [err |-> "", info |-> info,
             task_states |-> WireTasks(fresh, byKey, flat, 1),
             task_states_by_key |-> byKey]

\* Mutants: a state never counts as complete; a state never counts as blocked.
IsCompleteNever(states, s) == FALSE
IsBlockedNever(states, s) == FALSE

\* TaskState.is_complete and TaskState.is_blocked.
IsComplete(states, s) == ~IsNone(states[s].results_by_name)

IsBlocked(states, s) ==
    ~(\A j \in DOMAIN states[s].parents : IsComplete(states, states[s].parents[j]))

\* ------------------------------------------------------------------------
\* The persistent cache and the protocol, as the resolver uses them.

\* What the cache writes for a value and what it reads back: the stored
\* form keeps the value up to its canonical (even) representative.
Serialize(value) == value \div 2
Deserialize(stored) == stored * 2

\* cache.save(result) and cache.load(query) over the stored entries.
CacheSave(store, result) == (result.query :> Serialize(result.value)) @@ store

CacheLoad(store, query) ==
    IF query \in DOMAIN store
    THEN Some([query |-> query, value |-> Deserialize(store[query])])
    ELSE None

\* provider.protocol_for_name(name): the values its validate() rejects.
ProtocolForName(provider, name) == {pair[2] : pair \in {x \in provider.invalid : x[1] = name}}

\* provider.get_code_id(case_key).
GetCodeId(provider, case_key) == <<provider.code_id, case_key>>

\* task.compute(dep_values): one value per key of the task.
Compute(task, dep_values) ==
    [i \in DOMAIN task.keys |-> task.base + (i - 1) + 2 * SumSeq(dep_values)]

\* ------------------------------------------------------------------------
\* Task evaluation: _compute_task_state.

Event(op, task_key) == [op |-> op, key |-> task_key]

\* Mutant: a failed evaluation leaves the state marked complete, without
\* results.
FailedMarksComplete(err, store, events, computed) ==
    [err |-> err, results_by_name |-> Some(<<>>), store |-> store, events |-> events,
     computed |-> computed]

\* An evaluation ended by an exception: results_by_name is still absent.
Failed(err, store, events, computed) ==
    [err |-> err, results_by_name |-> None, store |-> store, events |-> events,
     computed |-> computed]

\* Provenance.from_computation over the dependency results.
ProvenanceFromComputation(provider, case_key, dep_results) ==
    [code_id |-> GetCodeId(provider, case_key),
     case_key |-> case_key,
     dep_provenances_by_name |->
        DictFromPairs([j \in DOMAIN dep_results |->
            <<dep_results[j].query.name, dep_results[j].query.provenance>>])]

\* Mutant: the lookup reports a miss whatever the cache holds.
LoadResultsMiss(store, task, tk_queries, i, acc) ==
    [results_ready |-> FALSE, tk_results |-> <<>>,
     events |-> <<Event("load", task.keys[1])>>]

\* Mutant: the loop goes on to the next query after a miss.
RECURSIVE LoadResultsNoBreak(_, _, _, _, _)
LoadResultsNoBreak(store, task, tk_queries, i, acc) ==
    IF i > Len(tk_queries)
    THEN [acc EXCEPT !.results_ready = Len(acc.tk_results) = Len(tk_queries)]
    ELSE LET result == CacheLoad(store, tk_queries[i])
             loaded == Append(acc.events, Event("load", task.keys[i]))
         IN IF ~IsNone(result)
            THEN LoadResultsNoBreak(store, task, tk_queries, i + 1,
                    [results_ready |-> FALSE,
                     tk_results |-> Append(acc.tk_results, Get(result)),
                     events |-> Append(loaded, Event("log_loaded", task.keys[i]))])
            ELSE LoadResultsNoBreak(store, task, tk_queries, i + 1,
                    [results_ready |-> FALSE, tk_results |-> acc.tk_results,
                     events |-> loaded])

\* The loop that loads each query of the task and stops at the first miss.
RECURSIVE LoadResults(_, _, _, _, _)
LoadResults(store, task, tk_queries, i, acc) ==
    IF i > Len(tk_queries) THEN [acc EXCEPT !.results_ready = TRUE]
    ELSE LET result == CacheLoad(store, tk_queries[i])
             loaded == Append(acc.events, Event("load", task.keys[i]))
         IN IF ~IsNone(result)
            THEN LoadResults(store, task, tk_queries, i + 1,
                    [results_ready |-> FALSE,
                     tk_results |-> Append(acc.tk_results, Get(result)),
                     events |-> Append(loaded, Event("log_loaded", task.keys[i]))])
            ELSE [results_ready |-> FALSE, tk_results |-> acc.tk_results,
                  events |-> loaded]

\* The "Computing ..." messages, one per key unless the task is a lookup.
ComputingLogs(task) ==
    IF task.is_simple_lookup THEN <<>>
    ELSE [i \in DOMAIN task.keys |-> Event("log_computing", task.keys[i])]

\* Mutant: the computed value is saved and kept, not reloaded.
RECURSIVE StoreResultsNoReload(_, _, _, _, _, _)
StoreResultsNoReload(task, should_persist, tk_values, tk_queries, i, acc) ==
    IF i > Len(tk_values) \/ i > Len(tk_queries) \/ acc.err # "" THEN acc
    ELSE IF tk_values[i] \in tk_queries[i].protocol
    THEN [acc EXCEPT !.err = "ProtocolValidation"]
    ELSE LET computed == [query |-> tk_queries[i], value |-> tk_values[i]]
         IN StoreResultsNoReload(task, should_persist, tk_values, tk_queries, i + 1,
                [err |-> "",
                 store |-> IF should_persist THEN CacheSave(acc.store, computed)
                           ELSE acc.store,
                 tk_results |-> Append(acc.tk_results, computed),
                 events |-> acc.events \o
                    (IF should_persist THEN <<Event("save", task.keys[i])>> ELSE <<>>)])

\* Mutant: the computed values are saved and reloaded without validation.
RECURSIVE StoreResultsUnchecked(_, _, _, _, _, _)
StoreResultsUnchecked(task, should_persist, tk_values, tk_queries, i, acc) ==
    IF i > Len(tk_values) \/ i > Len(tk_queries) THEN acc
    ELSE LET computed == [query |-> tk_queries[i], value |-> tk_values[i]]
             saved == IF should_persist THEN CacheSave(acc.store, computed) ELSE acc.store
             result == IF should_persist THEN CacheLoad(saved, tk_queries[i])
                       ELSE Some(computed)
         IN StoreResultsUnchecked(task, should_persist, tk_values, tk_queries, i + 1,
                [err |-> "", store |-> saved,
                 tk_results |-> Append(acc.tk_results, Get(result)),
                 events |-> acc.events \o
                    (IF should_persist
                     THEN <<Event("save", task.keys[i]), Event("load", task.keys[i])>>
                     ELSE <<>>)])

\* Mutant: an output the cache already holds is taken from the cache, not
\* saved again.
RECURSIVE StoreResultsSkipLoaded(_, _, _, _, _, _)
StoreResultsSkipLoaded(task, should_persist, tk_values, tk_queries, i, acc) ==
    IF i > Len(tk_values) \/ i > Len(tk_queries) \/ acc.err # "" THEN acc
    ELSE IF tk_values[i] \in tk_queries[i].protocol
    THEN [acc EXCEPT !.err = "ProtocolValidation"]
    ELSE LET computed == [query |-> tk_queries[i], value |-> tk_values[i]]
             held == should_persist /\ tk_queries[i] \in DOMAIN acc.store
             saved == IF should_persist /\ ~held THEN CacheSave(acc.store, computed)
                      ELSE acc.store
             result == IF should_persist THEN CacheLoad(saved, tk_queries[i])
                       ELSE Some(computed)
         IN StoreResultsSkipLoaded(task, should_persist, tk_values, tk_queries, i + 1,
                [err |-> "", store |-> saved,
                 tk_results |-> Append(acc.tk_results, Get(result)),
                 events |-> acc.events \o
                    (IF should_persist /\ ~held THEN <<Event("save", task.keys[i])>>
                     ELSE <<>>)
                    \o (IF should_persist THEN <<Event("load", task.keys[i])>> ELSE <<>>)])

\* Mutant: a computed value is saved before it is validated.
RECURSIVE StoreResultsSaveFirst(_, _, _, _, _, _)
StoreResultsSaveFirst(task, should_persist, tk_values, tk_queries, i, acc) ==
    IF i > Len(tk_values) \/ i > Len(tk_queries) \/ acc.err # "" THEN acc
    ELSE LET computed == [query |-> tk_queries[i], value |-> tk_values[i]]
             saved == IF should_persist THEN CacheSave(acc.store, computed) ELSE acc.store
             result == IF should_persist THEN CacheLoad(saved, tk_queries[i])
                       ELSE Some(computed)
             io == IF should_persist
                   THEN <<Event("save", task.keys[i]), Event("load", task.keys[i])>>
                   ELSE <<>>
         IN StoreResultsSaveFirst(task, should_persist, tk_values, tk_queries, i + 1,
                [err |-> IF tk_values[i] \in tk_queries[i].protocol
                         THEN "ProtocolValidation" ELSE "",
                 store |-> saved,
                 tk_results |-> Append(acc.tk_results, Get(result)),
                 events |-> Append(acc.events \o io, Event("validate", task.keys[i]))])

\* The loop over the computed values: validate, save and reload, log.
RECURSIVE StoreResults(_, _, _, _, _, _)
StoreResults(task, should_persist, tk_values, tk_queries, i, acc) ==
    IF i > Len(tk_values) \/ i > Len(tk_queries) \/ acc.err # "" THEN acc
    ELSE LET value == tk_values[i]
             query == tk_queries[i]
             key == task.keys[i]
             validated == Append(acc.events, Event("validate", key))
         IN IF value \in query.protocol
            THEN [acc EXCEPT !.err = "ProtocolValidation", !.events = validated]
            ELSE LET computed == [query |-> query, value |-> value]
                     saved == IF should_persist THEN CacheSave(acc.store, computed)
                              ELSE acc.store
                     result == IF should_persist THEN CacheLoad(saved, query)
                               ELSE Some(computed)
                     io == IF should_persist
                           THEN <<Event("save", key), Event("load", key)>>
                           ELSE <<>>
                     log == IF task.is_simple_lookup
                            THEN Event("log_accessed_definition", key)
                            ELSE Event("log_computed", key)
                 IN StoreResults(task, should_persist, tk_values, tk_queries, i + 1,
                        [err |-> "", store |-> saved,
                         tk_results |-> Append(acc.tk_results, Get(result)),
                         events |-> Append(validated \o io, log)])

\* results_by_name from zip(task.keys, tk_results).
ResultsByName(task, tk_results) ==
    DictFromPairs([i \in DOMAIN task.keys |-> <<task.keys[i].entity_name, tk_results[i]>>])

\* The results of the task's dep_keys, in order.
DepResults(states, byKey, task) ==
    [j \in DOMAIN task.dep_keys |->
        Get(states[byKey[task.dep_keys[j]]].results_by_name)[task.dep_keys[j].entity_name]]

\* tk_queries: one Query per key of the task, all with the provenance of
\* this evaluation.
TkQueries(provider, case_key, task, dep_results) ==
    [i \in DOMAIN task.keys |->
        [name |-> task.keys[i].entity_name,
         protocol |-> ProtocolForName(provider, task.keys[i].entity_name),
         case_key |-> case_key,
         provenance |-> ProvenanceFromComputation(provider, case_key, dep_results)]]

\* Mutant: persistent caching is never refused.
PersistsAnyTime(should_persist, full_ready) == FALSE

\* The test that refuses persistent caching to bootstrap entities.
PersistsBeforeReady(should_persist, full_ready) == should_persist /\ ~full_ready

\* _compute_task_state(task_state), where task.compute raises iff `fails`:
\* the error it raises (or ""), the results it installs, the cache entries
\* it leaves and what it did.
ComputeTaskState(flow, states, byKey, full_ready, store, s, fails) ==
    LET task == states[s].task
        dep_keys == task.dep_keys
        providers == {flow.providers_by_name[k.entity_name] : k \in SeqToSet(task.keys)}
        case_keys == {k.case_key : k \in SeqToSet(task.keys)}
    IN IF IsBlocked(states, s) THEN Failed("AssertionError:is_blocked", store, <<>>, FALSE)
       ELSE IF \E j \in DOMAIN dep_keys : ~IsComplete(states, byKey[dep_keys[j]])
       THEN Failed("TypeError", store, <<>>, FALSE)
       ELSE IF Cardinality(providers) # 1 \/ Cardinality(case_keys) # 1
       THEN Failed("ValueError", store, <<>>, FALSE)
       ELSE
       LET provider == CHOOSE p \in providers : TRUE
           case_key == CHOOSE c \in case_keys : TRUE
           should_persist == provider.should_persist
           NoLookup == [results_ready |-> FALSE, tk_results |-> <<>>, events |-> <<>>]
           \* After the loop over the computed values.
           Install(stored) ==
                IF stored.err # ""
                THEN Failed(stored.err, stored.store, stored.events, TRUE)
                ELSE IF Len(stored.tk_results) # Len(task.keys)
                THEN Failed("AssertionError:len", stored.store, stored.events, TRUE)
                ELSE [err |-> "",
                      results_by_name |-> Some(ResultsByName(task, stored.tk_results)),
                      store |-> stored.store, events |-> stored.events, computed |-> TRUE]
           \* The compute phase, entered when the cache did not have every result.
           ComputePhase(dep_results, tk_queries, before) ==
                LET dep_values == [j \in DOMAIN dep_results |-> dep_results[j].value]
                    tk_values == Compute(task, dep_values)
                IN IF fails THEN Failed("ComputeFailure", store, before, TRUE)
                   ELSE IF Len(tk_values) # Len(provider.names)
                   THEN Failed("AssertionError:len", store, before, TRUE)
                   ELSE Only({Install(stored) : stored \in
                            {StoreResults(task, should_persist, tk_values, tk_queries, 1,
                                [err |-> "", store |-> store, tk_results |-> <<>>,
                                 events |-> before])}})
           \* From the cache lookup on.
           AfterLookup(dep_results, tk_queries, lookup) ==
                IF lookup.results_ready
                THEN [err |-> "",
                      results_by_name |-> Some(ResultsByName(task, lookup.tk_results)),
                      store |-> store, events |-> lookup.events, computed |-> FALSE]
                ELSE Only({ComputePhase(dep_results, tk_queries, before) : before \in
                        {(lookup.events \o ComputingLogs(task))
                            \o <<Event("compute", task.keys[1])>>}})
           \* From the queries on.
           AfterQueries(dep_results, tk_queries) ==
                IF PersistsBeforeReady(should_persist, full_ready)
                THEN Failed("BootstrapPersistence", store, <<>>, FALSE)
                ELSE Only({AfterLookup(dep_results, tk_queries, lookup) : lookup \in
                        {IF should_persist
                         THEN LoadResults(store, task, tk_queries, 1, NoLookup)
                         ELSE NoLookup}})
       IN Only({Only({AfterQueries(dep_results, tk_queries) : tk_queries \in
                        {TkQueries(provider, case_key, task, dep_results)}}) :
                dep_results \in {DepResults(states, byKey, task)}})

\* ------------------------------------------------------------------------
\* The resolver and its callers.

VARIABLES
    flow,                               \* the flow_state the resolver is built over
    store,                              \* the entries the persistent cache holds
    is_ready_for_bootstrap_resolution,
    task_list_order,                    \* iteration order of task_lists_by_entity_name
    task_lists_by_entity_name,
    key_spaces_by_entity_name,
    task_states,                        \* the TaskState objects, by identity
    task_states_by_key,
    is_ready_for_full_resolution,
    persistent_cache,
    pc,                                 \* "idle", or "loop" inside the work-list loop
    call,                               \* the public call in progress and its stage
    requested_task_states,
    ready_task_states,
    blocked_task_key_tuples,
    logged_task_keys,
    outcome,                            \* how the last public call ended
    returned,                           \* values of the last successful resolve, per entity
    compute_count,                      \* task.compute invocations per TaskState
    evaluated,                          \* the TaskState the last step evaluated, or 0
    events                              \* loads, saves, compute and messages of the last step

resolverVars ==
    <<is_ready_for_bootstrap_resolution, task_list_order, task_lists_by_entity_name,
      key_spaces_by_entity_name, task_states, task_states_by_key,
      is_ready_for_full_resolution, persistent_cache>>

loopVars ==
    <<requested_task_states, ready_task_states, blocked_task_key_tuples, logged_task_keys>>

vars ==
    <<flow, store, resolverVars, pc, call, loopVars, outcome, returned, compute_count,
      evaluated, events>>

\* The entity names a caller asks for: the registered ones and one that no
\* provider defines.
UndefinedName == "zz"

EntityNames(f) == DOMAIN f.providers_by_name \cup {UndefinedName}

\* The most compute invocations counted per TaskState.
MaxCount == 2

NoCall == [op |-> "", entity_name |-> "", include_core |-> FALSE, phase |-> ""]
NoOutcome ==
    [op |-> "", entity_name |-> "", include_core |-> FALSE, err |-> "", values |-> <<>>,
     graph |-> None]

\* How a public call ends: resolve returns the values of its ResultGroup,
\* export_dag returns a graph, and any of them may raise.
Returns(c, values) ==
    [op |-> c.op, entity_name |-> c.entity_name, include_core |-> c.include_core,
     err |-> "", values |-> values, graph |-> None]
ReturnsGraph(c, graph) ==
    [op |-> c.op, entity_name |-> c.entity_name, include_core |-> c.include_core,
     err |-> "", values |-> <<>>, graph |-> Some(graph)]
Raises(c, err) ==
    [op |-> c.op, entity_name |-> c.entity_name, include_core |-> c.include_core,
     err |-> err, values |-> <<>>, graph |-> None]

\* EntityResolver.__init__, over whatever an earlier run left in the cache.
Init ==
    /\ flow \in Flows
    /\ store = <<>>
    /\ is_ready_for_bootstrap_resolution = FALSE
    /\ task_list_order = <<>>
    /\ task_lists_by_entity_name = None
    /\ key_spaces_by_entity_name = None
    /\ task_states = <<>>
    /\ task_states_by_key = None
    /\ is_ready_for_full_resolution = FALSE
    /\ persistent_cache = None
    /\ pc = "idle"
    /\ call = NoCall
    /\ requested_task_states = <<>>
    /\ ready_task_states = <<>>
    /\ blocked_task_key_tuples = {}
    /\ logged_task_keys = {}
    /\ outcome = NoOutcome
    /\ returned = <<>>
    /\ compute_count = <<>>
    /\ evaluated = 0
    /\ events = <<>>

\* ------------------------------------------------------------------------
\* export_dag.

\* The entity names of the flows that start with 'core__'.
InternalNames == {PersistentCacheName, "core__dir"}

\* entity_is_internal(entity_name)
EntityIsInternal(entity_name) == entity_name \in InternalNames

\* should_include_entity_name(name), called where the enclosing function's
\* variable entity_name holds `entity_name`: the body reads that variable.
ShouldIncludeEntityName(include_core, name, entity_name) ==
    include_core \/ ~EntityIsInternal(entity_name)

\* task.key_for_entity_name(entity_name)
KeyForEntityName(task, entity_name) ==
    task.keys[CHOOSE i \in DOMAIN task.keys : task.keys[i].entity_name = entity_name]

\* sorted(tasks, key=lambda task: task.keys[0].case_key)
SortedTasks(tasks) == SortSeq(tasks, LAMBDA x, y : x.keys[1].case_key < y.keys[1].case_key)

\* The graph export_dag builds once the resolver is ready: the nodes given
\* to add_node with their attributes, the edges given to add_edge, and the
\* nodes add_edge creates for endpoints that were never added (no attributes).
Dag(include_core, order, lists, states, byKey) ==
    LET included == {e \in SeqToSet(order) : ShouldIncludeEntityName(include_core, e, e)}
        visited == UNION {{<<e, i>> : i \in DOMAIN lists[e]} : e \in included}
        TaskOf(v) == SortedTasks(lists[v[1]])[v[2]]
        KeyOf(v) == KeyForEntityName(TaskOf(v), v[1])
        Attrs(v) ==
            [name |-> IF Len(lists[v[1]]) = 1 THEN <<v[1]>> ELSE <<v[1], v[2] - 1>>,
             entity_name |-> v[1],
             case_key |-> KeyOf(v).case_key,
             task_ix |-> v[2] - 1]
        EdgesOf(v) ==
            LET children == states[byKey[KeyOf(v)]].children
            IN UNION {{<<KeyOf(v), ck>> :
                        ck \in {k \in SeqToSet(states[children[j]].task.keys) :
                                  /\ ShouldIncludeEntityName(include_core, k.entity_name, v[1])
                                  /\ KeyOf(v) \in SeqToSet(states[children[j]].task.dep_keys)}} :
                      j \in DOMAIN children}
        added == {KeyOf(v) : v \in visited}
        edges == UNION {EdgesOf(v) : v \in visited}
        touched == {e[1] : e \in edges} \cup {e[2] : e \in edges}
    IN [nodes |-> [k \in added \cup touched |->
                    IF k \in added
                    THEN Some(Attrs(CHOOSE v \in visited : KeyOf(v) = k))
                    ELSE None],
        edges |-> edges]

\* What get_ready's caller does once the resolver is ready: get_ready
\* returns, export_dag builds and returns the graph.
AfterGetReady(c, order, lists, states, byKey) ==
    IF c.op = "export_dag"
    THEN ReturnsGraph(c, Dag(c.include_core, order, lists, states, byKey))
    ELSE Returns(c, <<>>)

\* A new resolver over the same flow, after some of the cache's entries
\* were removed between the runs.
NewResolver(keep) ==
    /\ pc = "idle"
    /\ outcome # NoOutcome
    /\ store' = [q \in keep |-> store[q]]
    /\ is_ready_for_bootstrap_resolution' = FALSE
    /\ task_list_order' = <<>>
    /\ task_lists_by_entity_name' = None
    /\ key_spaces_by_entity_name' = None
    /\ task_states' = <<>>
    /\ task_states_by_key' = None
    /\ is_ready_for_full_resolution' = FALSE
    /\ persistent_cache' = None
    /\ call' = NoCall
    /\ outcome' = NoOutcome
    /\ returned' = <<>>
    /\ compute_count' = <<>>
    /\ evaluated' = 0
    /\ events' = <<>>
    /\ UNCHANGED <<flow, pc, loopVars>>

\* Mutant: only the first task of the entity is requested.
RequestedFirstOnly(lists, byKey, entity_name) ==
    [i \in DOMAIN lists[entity_name] \cap {1} |-> byKey[lists[entity_name][i].keys[1]]]

\* requested_task_states: the state of each task of the entity, in order.
Requested(lists, byKey, entity_name) ==
    [i \in DOMAIN lists[entity_name] |-> byKey[lists[entity_name][i].keys[1]]]

\* Entering _compute_result_group_for_entity_name for `entity_name` as stage
\* `phase` of the call `c`, over the graph (lists, byKey).
EnterLoop(c, phase, entity_name, lists, byKey) ==
    IF entity_name \notin DOMAIN lists
    THEN /\ pc' = "idle"
         /\ call' = NoCall
         /\ outcome' = Raises(c, "UndefinedEntityError")
         /\ requested_task_states' = <<>>
         /\ ready_task_states' = <<>>
    ELSE /\ pc' = "loop"
         /\ call' = [c EXCEPT !.phase = phase]
         /\ outcome' = outcome
         /\ requested_task_states' = Requested(lists, byKey, entity_name)
         /\ ready_task_states' = Requested(lists, byKey, entity_name)

\* get_ready() and resolve(entity_name) up to the first pass of a work-list
\* loop: the early return, the graph build, the start of the bootstrap
\* resolution or of the resolution asked for.
Enter(op, entity_name, include_core) ==
    LET c == [op |-> op, entity_name |-> entity_name, include_core |-> include_core,
              phase |-> ""]
        graph == BuildGraph(flow)
    IN
    /\ pc = "idle"
    /\ blocked_task_key_tuples' = {}
    /\ logged_task_keys' = {}
    /\ evaluated' = 0
    /\ events' = <<>>
    /\ UNCHANGED <<flow, store, is_ready_for_full_resolution, persistent_cache, returned>>
    /\ IF is_ready_for_full_resolution
       THEN /\ UNCHANGED <<is_ready_for_bootstrap_resolution, task_list_order,
                           task_lists_by_entity_name, key_spaces_by_entity_name,
                           task_states, task_states_by_key, compute_count>>
            /\ IF op = "resolve"
               THEN EnterLoop(c, "main", entity_name, task_lists_by_entity_name,
                              task_states_by_key)
               ELSE /\ pc' = "idle"
                    /\ call' = NoCall
                    /\ outcome' = AfterGetReady(c, task_list_order,
                                                task_lists_by_entity_name, task_states,
                                                task_states_by_key)
                    /\ requested_task_states' = <<>>
                    /\ ready_task_states' = <<>>
       ELSE IF is_ready_for_bootstrap_resolution
       THEN /\ UNCHANGED <<is_ready_for_bootstrap_resolution, task_list_order,
                           task_lists_by_entity_name, key_spaces_by_entity_name,
                           task_states, task_states_by_key, compute_count>>
            /\ EnterLoop(c, "bootstrap", PersistentCacheName, task_lists_by_entity_name,
                         task_states_by_key)
       ELSE /\ task_list_order' = graph.info.order
            /\ task_lists_by_entity_name' = graph.info.task_lists
            /\ key_spaces_by_entity_name' = graph.info.key_spaces
            /\ IF graph.err # ""
               THEN /\ pc' = "idle"
                    /\ call' = NoCall
                    /\ outcome' = Raises(c, graph.err)
                    /\ requested_task_states' = <<>>
                    /\ ready_task_states' = <<>>
                    /\ UNCHANGED <<is_ready_for_bootstrap_resolution, task_states,
                                   task_states_by_key, compute_count>>
               ELSE /\ is_ready_for_bootstrap_resolution' = TRUE
                    /\ task_states' = graph.task_states
                    /\ task_states_by_key' = graph.task_states_by_key
                    /\ compute_count' = [i \in DOMAIN graph.task_states |-> 0]
                    /\ EnterLoop(c, "bootstrap", PersistentCacheName,
                                 graph.info.task_lists, graph.task_states_by_key)

GetReady == Enter("get_ready", "", FALSE)

Resolve(entity_name) == Enter("resolve", entity_name, FALSE)

ExportDag(include_core) == Enter("export_dag", "", include_core)

\* ------------------------------------------------------------------------
\* The work-list loop of _compute_result_group_for_entity_name, one pass of
\* `while ready_task_states` per step.

\* The state taken from position i of the work-list, and the work-list
\* without it.
PoppedAt(i) == ready_task_states[i]
RestAt(i) ==
    SubSeq(ready_task_states, 1, i - 1)
        \o SubSeq(ready_task_states, i + 1, Len(ready_task_states))

\* state = ready_task_states.pop(): the last one.
Popped == PoppedAt(Len(ready_task_states))
Rest == RestAt(Len(ready_task_states))

\* Mutant: the loop does not skip a completed state.
LoopBranchNoSkip(states, s) ==
    IF ~IsBlocked(states, s) THEN "evaluate" ELSE "blocked"

\* The branch a pass of the loop takes for the popped state.
LoopBranch(states, s) ==
    IF IsComplete(states, s) THEN "complete"
    ELSE IF ~IsBlocked(states, s) THEN "evaluate"
    ELSE "blocked"

\* The exception leaves the call: its locals are gone.
Abandon(err) ==
    /\ pc' = "idle"
    /\ outcome' = Raises(call, err)
    /\ call' = NoCall
    /\ requested_task_states' = <<>>
    /\ ready_task_states' = <<>>
    /\ blocked_task_key_tuples' = {}
    /\ logged_task_keys' = {}

\* The "Accessed ... from in-memory cache" messages of a completed state:
\* one per task key not logged yet in this call.
AccessedLogs(task, logged) ==
    SelectSeq([i \in DOMAIN task.keys |-> Event("log_accessed_memory", task.keys[i])],
              LAMBDA e : e.key \notin logged)

\* A pass of the loop over the state at position i, which is complete.
AccessCompletedAt(i) ==
    /\ pc = "loop"
    /\ i \in DOMAIN ready_task_states
    /\ LoopBranch(task_states, PoppedAt(i)) = "complete"
    /\ ready_task_states' = RestAt(i)
    /\ logged_task_keys' = logged_task_keys \cup SeqToSet(task_states[PoppedAt(i)].task.keys)
    /\ evaluated' = 0
    /\ events' = AccessedLogs(task_states[PoppedAt(i)].task, logged_task_keys)
    /\ UNCHANGED <<flow, store, resolverVars, pc, call, requested_task_states,
                   blocked_task_key_tuples, outcome, returned, compute_count>>

\* The popped state is complete.
AccessCompleted == AccessCompletedAt(Len(ready_task_states))

\* Mutant: no child is moved back to the ready stack.
UnblockNothing(states, children, j, ready, blocked) ==
    [ready |-> ready, blocked |-> blocked]

\* Mutant: a child that is no longer blocked goes on the work-list whether
\* or not the loop had set it aside as blocked.
RECURSIVE UnblockUnasked(_, _, _, _, _)
UnblockUnasked(states, children, j, ready, blocked) ==
    IF j > Len(children) THEN [ready |-> ready, blocked |-> blocked]
    ELSE LET child == children[j]
             keys == states[child].task.keys
         IN IF ~IsBlocked(states, child)
            THEN UnblockUnasked(states, children, j + 1, Append(ready, child),
                                blocked \ {keys})
            ELSE UnblockUnasked(states, children, j + 1, ready, blocked)

\* The loop over the children of an evaluated state: each child that was
\* blocked and no longer is moves from the blocked set to the ready stack.
RECURSIVE Unblock(_, _, _, _, _)
Unblock(states, children, j, ready, blocked) ==
    IF j > Len(children) THEN [ready |-> ready, blocked |-> blocked]
    ELSE LET child == children[j]
             keys == states[child].task.keys
         IN IF keys \in blocked /\ ~IsBlocked(states, child)
            THEN Unblock(states, children, j + 1, Append(ready, child), blocked \ {keys})
            ELSE Unblock(states, children, j + 1, ready, blocked)

Counted(counts, s) ==
    [counts EXCEPT ![s] = IF @ < MaxCount THEN @ + 1 ELSE @]

\* A pass of the loop over the state at position i, which is incomplete and
\* not blocked: it is evaluated. A task marked `raises` may fail in compute,
\* and may succeed on another attempt.
EvaluateAt(i, fails) ==
    /\ pc = "loop"
    /\ i \in DOMAIN ready_task_states
    /\ fails => task_states[PoppedAt(i)].task.raises
    /\ LoopBranch(task_states, PoppedAt(i)) = "evaluate"
    /\ \E r \in {ComputeTaskState(flow, task_states, task_states_by_key,
                                   is_ready_for_full_resolution, store, PoppedAt(i), fails)} :
       \E after \in {[task_states EXCEPT ![PoppedAt(i)].results_by_name = r.results_by_name]} :
       \E moved \in {Unblock(after, after[PoppedAt(i)].children, 1, RestAt(i),
                              blocked_task_key_tuples)} :
          /\ evaluated' = PoppedAt(i)
          /\ events' = r.events
          /\ store' = r.store
          /\ compute_count' = IF r.computed THEN Counted(compute_count, PoppedAt(i))
                               ELSE compute_count
          /\ task_states' = after
          /\ IF r.err # ""
             THEN Abandon(r.err)
             ELSE /\ logged_task_keys' =
                        logged_task_keys \cup SeqToSet(task_states[PoppedAt(i)].task.keys)
                  /\ ready_task_states' = moved.ready
                  /\ blocked_task_key_tuples' = moved.blocked
                  /\ UNCHANGED <<pc, call, requested_task_states, outcome>>
    /\ UNCHANGED <<flow, is_ready_for_bootstrap_resolution, task_list_order,
                   task_lists_by_entity_name, key_spaces_by_entity_name,
                   task_states_by_key, is_ready_for_full_resolution, persistent_cache,
                   returned>>

\* The popped state is incomplete and not blocked.
Evaluate(fails) == EvaluateAt(Len(ready_task_states), fails)

\* The parents of a blocked state that are not complete, in order.
IncompleteParents(states, s) ==
    SelectSeq(states[s].parents, LAMBDA p : ~IsComplete(states, p))

\* A pass of the loop over the state at position i, which is blocked: its
\* incomplete parents go on the work-list.
BlockAt(i) ==
    /\ pc = "loop"
    /\ i \in DOMAIN ready_task_states
    /\ LoopBranch(task_states, PoppedAt(i)) = "blocked"
    /\ ready_task_states' = RestAt(i) \o IncompleteParents(task_states, PoppedAt(i))
    /\ blocked_task_key_tuples' =
            blocked_task_key_tuples \cup {task_states[PoppedAt(i)].task.keys}
    /\ evaluated' = 0
    /\ events' = <<>>
    /\ UNCHANGED <<flow, store, resolverVars, pc, call, requested_task_states,
                   logged_task_keys, outcome, returned, compute_count>>

\* The popped state is blocked.
Block == BlockAt(Len(ready_task_states))

\* The ResultGroup the loop's function returns: the requested states'
\* results for the entity, in order.
ResultGroup(states, requested, entity_name) ==
    [i \in DOMAIN requested |-> Get(states[requested[i]].results_by_name)[entity_name]]

Values(result_group) == [i \in DOMAIN result_group |-> result_group[i].value]

\* Mutant: of several values the first is taken.
BootstrapSingletonFirst(result_group) ==
    IF Len(result_group) = 0 THEN [err |-> "BootstrapCardinality", value |-> None]
    ELSE [err |-> "", value |-> result_group[1].value]

\* _bootstrap_singleton after its resolution: the single value of the
\* group, or the error for a group of none or of several.
BootstrapSingleton(result_group) ==
    IF Len(result_group) = 0 THEN [err |-> "BootstrapCardinality", value |-> None]
    ELSE IF Len(result_group) > 1 THEN [err |-> "BootstrapCardinality", value |-> None]
    ELSE [err |-> "", value |-> result_group[1].value]

\* The name the loop in progress resolves.
LoopEntity == IF call.phase = "bootstrap" THEN PersistentCacheName ELSE call.entity_name

\* The loop has ended: the two assertions and the ResultGroup; then, for
\* the bootstrap resolution, _bootstrap_singleton's check, the adoption of
\* the cache and the rest of the public call.
LoopExit ==
    /\ pc = "loop"
    /\ ready_task_states = <<>>
    /\ evaluated' = 0
    /\ events' = <<>>
    /\ UNCHANGED <<flow, store, is_ready_for_bootstrap_resolution, task_list_order,
                   task_lists_by_entity_name, key_spaces_by_entity_name, task_states,
                   task_states_by_key, compute_count>>
    /\ IF \/ blocked_task_key_tuples # {}
          \/ \E i \in DOMAIN requested_task_states :
                ~IsComplete(task_states, requested_task_states[i])
       THEN /\ Abandon(IF blocked_task_key_tuples # {} THEN "AssertionError:blocked"
                       ELSE "AssertionError:incomplete")
            /\ UNCHANGED <<is_ready_for_full_resolution, persistent_cache, returned>>
       ELSE LET result_group ==
                    ResultGroup(task_states, requested_task_states, LoopEntity)
            IN IF call.phase = "bootstrap"
               THEN IF BootstrapSingleton(result_group).err # ""
                    THEN /\ Abandon(BootstrapSingleton(result_group).err)
                         /\ UNCHANGED <<is_ready_for_full_resolution, persistent_cache,
                                        returned>>
                    ELSE /\ persistent_cache' = Some(BootstrapSingleton(result_group).value)
                         /\ is_ready_for_full_resolution' = TRUE
                         /\ blocked_task_key_tuples' = {}
                         /\ logged_task_keys' = {}
                         /\ UNCHANGED returned
                         /\ IF call.op = "resolve"
                            THEN EnterLoop(call, "main", call.entity_name,
                                           task_lists_by_entity_name, task_states_by_key)
                            ELSE /\ pc' = "idle"
                                 /\ call' = NoCall
                                 /\ outcome' = AfterGetReady(call, task_list_order,
                                                    task_lists_by_entity_name,
                                                    task_states, task_states_by_key)
                                 /\ requested_task_states' = <<>>
                                 /\ ready_task_states' = <<>>
               ELSE /\ pc' = "idle"
                    /\ call' = NoCall
                    /\ outcome' = Returns(call, Values(result_group))
                    /\ returned' = (call.entity_name :> Values(result_group)) @@ returned
                    /\ requested_task_states' = <<>>
                    /\ ready_task_states' = <<>>
                    /\ blocked_task_key_tuples' = {}
                    /\ logged_task_keys' = {}
                    /\ UNCHANGED <<is_ready_for_full_resolution, persistent_cache>>

Next ==
    \/ GetReady
    \/ \E include_core \in BOOLEAN : ExportDag(include_core)
    \/ \E entity_name \in EntityNames(flow) : Resolve(entity_name)
    \/ AccessCompleted
    \/ \E fails \in BOOLEAN : Evaluate(fails)
    \/ Block
    \/ LoopExit
    \/ \E keep \in SUBSET DOMAIN store : NewResolver(keep)

Spec == Init /\ [][Next]_vars

\* The resolver with a work-list that hands out its states in any order.
NextAny ==
    \/ GetReady
    \/ \E entity_name \in EntityNames(flow) : Resolve(entity_name)
    \/ \E i \in DOMAIN ready_task_states : AccessCompletedAt(i)
    \/ \E i \in DOMAIN ready_task_states : \E fails \in BOOLEAN : EvaluateAt(i, fails)
    \/ \E i \in DOMAIN ready_task_states : BlockAt(i)
    \/ LoopExit
    \/ \E keep \in SUBSET DOMAIN store : NewResolver(keep)

AnySpec == Init /\ [][NextAny]_vars

\* The loop is a running program: its passes and its exit are taken.
FairSpec ==
    Spec /\ WF_vars(AccessCompleted \/ Evaluate(FALSE) \/ Evaluate(TRUE) \/ Block \/ LoopExit)

TypeOK ==
    /\ pc \in {"idle", "loop"}
    /\ evaluated \in 0 .. Len(task_states)
    /\ DOMAIN compute_count = DOMAIN task_states

\* ------------------------------------------------------------------------
\* Vocabulary of the properties.

Completed(states, s) == states[s].results_by_name # None

\* The TaskState objects the resolver can reach.
LiveStates == {task_states_by_key[k] : k \in DOMAIN task_states_by_key}

\* The states producing an entity.
Producing(entity_name) ==
    {task_states_by_key[k] : k \in {x \in DOMAIN task_states_by_key : x.entity_name = entity_name}}

\* The parents of a state, directly and transitively: the states wired to
\* it when the graph was built. A state the by-key dict does not point to
\* has none.
DepStates(s) == SeqToSet(task_states[s].parents)

\* The states the by-key dict holds for the dep_keys of a state's task.
DepKeyStates(s) == {task_states_by_key[k] : k \in SeqToSet(task_states[s].task.dep_keys)}

RECURSIVE Ancestors(_)
Ancestors(s) == DepStates(s) \cup UNION {Ancestors(p) : p \in DepStates(s)}

Did(evs, op) == \E i \in DOMAIN evs : evs[i].op = op

CountOf(evs, op, key) == Cardinality({i \in DOMAIN evs : evs[i].op = op /\ evs[i].key = key})

ProviderOf(s) == flow.providers_by_name[task_states[s].task.keys[1].entity_name]

\* ------------------------------------------------------------------------
\* C1 as stated: task.compute is invoked at most once for each TaskState
\* over the resolver's lifetime, whatever the calls.
C1_AtMostOnce == \A s \in DOMAIN compute_count : compute_count[s] <= 1

\* C1 amended: task.compute is invoked only for a TaskState that is not
\* complete, the invocation either completes the state or ends the call
\* with an error, and a complete state keeps its results; so only a state
\* whose evaluation failed is ever computed again.
C1_OncePerCompletion ==
    [][\A s \in DOMAIN task_states \cap DOMAIN task_states' :
          /\ (evaluated' = s /\ Did(events', "compute")) =>
                /\ ~Completed(task_states, s)
                /\ \/ Completed(task_states', s)
                   \/ (pc' = "idle" /\ outcome'.err # "")
          /\ Completed(task_states, s) =>
                task_states'[s].results_by_name = task_states[s].results_by_name
      ]_vars

\* A state that completed at its second computation, the first having failed.
C1_Witness ==
    \E s \in DOMAIN compute_count : compute_count[s] = 2 /\ Completed(task_states, s)

\* C2: whenever resolve(E) has returned normally, every state producing E
\* is complete and so is every state it transitively depends on.
C2_ResolvedComplete ==
    (pc = "idle" /\ outcome.op = "resolve" /\ outcome.err = "") =>
        \A s \in Producing(outcome.entity_name) :
            /\ Completed(task_states, s)
            /\ \A p \in Ancestors(s) : Completed(task_states, p)

C2_Witness ==
    /\ pc = "idle" /\ outcome.op = "resolve" /\ outcome.err = ""
    /\ Cardinality(Producing(outcome.entity_name)) >= 2
    /\ \E s \in Producing(outcome.entity_name) : Ancestors(s) # {}

\* C3: at the moment a state is evaluated, every state its task depends on
\* is complete.
C3_Topological ==
    [][evaluated' # 0 =>
          \A p \in DepKeyStates(evaluated') \cup DepStates(evaluated') :
              Completed(task_states, p)
      ]_vars

\* A state with two parents has just been evaluated.
C3_Witness ==
    /\ evaluated # 0
    /\ Cardinality(DepStates(evaluated)) >= 2
    /\ Completed(task_states, evaluated)

\* C4: the work-list loop ends, and when its stack is empty no task-key
\* tuple is left blocked, so the assertions after the loop hold.
C4_Terminates ==
    /\ [](pc = "loop" /\ ready_task_states = <<>> => blocked_task_key_tuples = {})
    /\ [](outcome.err \notin {"AssertionError:blocked", "AssertionError:incomplete"})
    /\ (pc = "loop") ~> (ready_task_states = <<>>)

\* The loop has ended with nothing blocked, after it evaluated a requested
\* state whose parents it had to evaluate first.
C4_Witness ==
    /\ pc = "loop" /\ call.phase = "main" /\ ready_task_states = <<>>
    /\ blocked_task_key_tuples = {}
    /\ evaluated # 0
    /\ \E i \in DOMAIN requested_task_states :
          /\ requested_task_states[i] = evaluated
          /\ DepStates(evaluated) # {}
          /\ \A p \in DepStates(evaluated) :
                SeqToSet(task_states[p].task.keys) \subseteq logged_task_keys

\* C5: during a resolve(E) that follows a successful resolve(E) no compute
\* is invoked and no state changes, and it returns the same values in the
\* same order.
C5_Idempotent ==
    [][(pc = "loop" /\ call.op = "resolve" /\ call.entity_name \in DOMAIN returned) =>
          /\ ~Did(events', "compute")
          /\ compute_count' = compute_count
          /\ task_states' = task_states
          /\ pc' = "idle" =>
                /\ outcome'.err = ""
                /\ outcome'.values = returned[call.entity_name]
      ]_vars

\* The second resolve of an entity with two values is about to return.
C5_Witness ==
    /\ pc = "loop" /\ call.op = "resolve" /\ call.entity_name \in DOMAIN returned
    /\ ready_task_states = <<>>
    /\ Len(returned[call.entity_name]) = 2
    /\ logged_task_keys # {}

\* The queries of a state's task, once the states it depends on are complete.
DepsComplete(s) == \A p \in DepStates(s) : Completed(task_states, p)

QueriesOf(s) ==
    TkQueries(ProviderOf(s), task_states[s].task.keys[1].case_key, task_states[s].task,
              DepResults(task_states, task_states_by_key, task_states[s].task))

\* C6: when a should_persist task is evaluated and the persistent cache
\* holds an entry for each of its output queries, compute is not invoked,
\* nothing is saved, and load is called exactly once per output query.
C6_CacheHit ==
    [][\A s \in DOMAIN task_states :
          (/\ evaluated' = s
           /\ ProviderOf(s).should_persist
           /\ is_ready_for_full_resolution
           /\ DepsComplete(s)
           /\ \A q \in SeqToSet(QueriesOf(s)) : q \in DOMAIN store)
          =>
          /\ ~Did(events', "compute")
          /\ ~Did(events', "save")
          /\ \A k \in SeqToSet(task_states[s].task.keys) : CountOf(events', "load", k) = 1
          /\ Len(SelectSeq(events', LAMBDA e : e.op = "load")) = Len(task_states[s].task.keys)
          /\ compute_count' = compute_count
          /\ store' = store
          /\ Completed(task_states', s)
      ]_vars

\* A joint task has just been taken from the cache, both outputs loaded.
C6_Witness ==
    /\ evaluated # 0
    /\ Len(task_states[evaluated].task.keys) = 2
    /\ Completed(task_states, evaluated)
    /\ Did(events, "log_loaded")
    /\ ~Did(events, "compute")

\* C7: for every completed should_persist state, the in-memory result of
\* each output is what a load of its query returns from the cache; a
\* computed result is the one reloaded after its save.
C7_RoundTrip ==
    \A s \in LiveStates :
        (Completed(task_states, s) /\ ProviderOf(s).should_persist) =>
            \A name \in DOMAIN Get(task_states[s].results_by_name) :
                LET result == Get(task_states[s].results_by_name)[name]
                IN CacheLoad(store, result.query) = Some(result)

\* A should_persist state has just been computed, saved and reloaded, and
\* the reloaded value is not the value compute returned.
C7_Witness ==
    /\ evaluated # 0
    /\ ProviderOf(evaluated).should_persist
    /\ Completed(task_states, evaluated)
    /\ Did(events, "save")
    /\ LET task == task_states[evaluated].task
           dep_results == DepResults(task_states, task_states_by_key, task)
           tk_values == Compute(task, [j \in DOMAIN dep_results |-> dep_results[j].value])
       IN \E i \in DOMAIN task.keys :
            Get(task_states[evaluated].results_by_name)[task.keys[i].entity_name].value
                # tk_values[i]

\* Two entity names produced by the same tasks.
CoProduced(e, f) ==
    /\ e # f
    /\ Producing(f) # {}
    /\ \A s \in Producing(f) :
          {e, f} \subseteq {k.entity_name : k \in SeqToSet(task_states[s].task.keys)}

\* C8: every key of a task maps to the same TaskState; a complete state
\* holds a result for each name its task produces; and a resolve of an
\* entity co-produced with one already resolved invokes no compute and
\* returns its values.
C8_Joint ==
    /\ [](\A k \in DOMAIN task_states_by_key :
            \A k2 \in SeqToSet(task_states[task_states_by_key[k]].task.keys) :
                task_states_by_key[k2] = task_states_by_key[k])
    /\ [](\A s \in LiveStates :
            Completed(task_states, s) =>
                DOMAIN Get(task_states[s].results_by_name)
                    = {k.entity_name : k \in SeqToSet(task_states[s].task.keys)})
    /\ [][(/\ pc = "loop" /\ call.op = "resolve" /\ call.phase = "main"
            /\ \E e \in DOMAIN returned : CoProduced(e, call.entity_name))
           =>
           /\ ~Did(events', "compute")
           /\ compute_count' = compute_count
           /\ pc' = "idle" =>
                /\ outcome'.err = ""
                /\ outcome'.values =
                      [i \in DOMAIN requested_task_states |->
                         Get(task_states[requested_task_states[i]].results_by_name)
                            [call.entity_name].value]
          ]_vars

\* resolve("v") has returned after resolve("u"), the joint task computed once.
C8_Witness ==
    /\ pc = "idle" /\ outcome.op = "resolve" /\ outcome.err = ""
    /\ \E e \in DOMAIN returned : CoProduced(e, outcome.entity_name)
    /\ outcome.entity_name \in DOMAIN returned
    /\ Len(outcome.values) = 1
    /\ \A s \in Producing(outcome.entity_name) : compute_count[s] = 1

\* C9: no should_persist task is evaluated, and none is complete, while the
\* resolver is not full-ready: its evaluation fails with the
\* BootstrapPersistence error before any load, save or compute.
C9_BootstrapPersistence ==
    /\ [](~is_ready_for_full_resolution =>
            \A s \in LiveStates :
                ProviderOf(s).should_persist => ~Completed(task_states, s))
    /\ [][\A s \in DOMAIN task_states :
            (evaluated' = s /\ ProviderOf(s).should_persist
                /\ ~is_ready_for_full_resolution)
            =>
            /\ pc' = "idle"
            /\ outcome'.err = "BootstrapPersistence"
            /\ events' = <<>>
            /\ store' = store
            /\ task_states' = task_states
            /\ compute_count' = compute_count
          ]_vars

\* The bootstrap resolution has just failed on a should_persist task.
C9_Witness ==
    /\ pc = "idle" /\ outcome.err = "BootstrapPersistence"
    /\ evaluated # 0
    /\ ProviderOf(evaluated).should_persist
    /\ ~is_ready_for_full_resolution
    /\ DepStates(evaluated) # {}

\* The number of values core__persistent_cache resolves to.
CacheValues ==
    IF PersistentCacheName \in DOMAIN task_lists_by_entity_name
    THEN Len(task_lists_by_entity_name[PersistentCacheName])
    ELSE 0

\* C10: when core__persistent_cache resolves to no value or to several,
\* the call fails with the BootstrapCardinality error, the resolver does not
\* become full-ready and adopts no cache; the resolver is full-ready only
\* with the single value adopted as its cache.
C10_BootstrapCardinality ==
    /\ [](is_ready_for_full_resolution =>
            /\ CacheValues = 1
            /\ \A s \in Producing(PersistentCacheName) :
                  /\ Completed(task_states, s)
                  /\ persistent_cache =
                        Some(Get(task_states[s].results_by_name)[PersistentCacheName].value))
    /\ [](~is_ready_for_full_resolution => persistent_cache = None)
    /\ [][(/\ pc = "loop" /\ call.phase = "bootstrap" /\ ready_task_states = <<>>
            /\ CacheValues # 1)
           =>
           /\ pc' = "idle"
           /\ outcome'.err = "BootstrapCardinality"
           /\ ~is_ready_for_full_resolution'
           /\ persistent_cache' = None
          ]_vars

\* resolve has failed because core__persistent_cache has two values.
C10_Witness ==
    /\ pc = "idle" /\ outcome.op = "resolve" /\ outcome.err = "BootstrapCardinality"
    /\ CacheValues = 2
    /\ \A s \in Producing(PersistentCacheName) : Completed(task_states, s)
    /\ ~is_ready_for_full_resolution
    /\ persistent_cache = None
\* The values task.compute returns for a state whose dependencies are complete.
ComputedValues(s) ==
    LET task == task_states[s].task
        dep_results == DepResults(task_states, task_states_by_key, task)
    IN Compute(task, [j \in DOMAIN dep_results |-> dep_results[j].value])

\* The protocol of some output of the state's task rejects its computed value.
Rejected(s) ==
    /\ DepsComplete(s)
    /\ \E i \in DOMAIN task_states[s].task.keys :
          ComputedValues(s)[i]
              \in ProtocolForName(ProviderOf(s), task_states[s].task.keys[i].entity_name)

\* C11: when the protocol rejects a value a task computed, the call fails
\* with the ProtocolValidation error and the task's state is not marked
\* complete, whether the task has one output or several.
C11_ProtocolRejection ==
    [][\A s \in DOMAIN task_states :
          (/\ evaluated' = s
           /\ Did(events', "compute")
           /\ outcome'.err # "ComputeFailure"
           /\ Rejected(s))
          =>
          /\ pc' = "idle"
          /\ outcome'.op = call.op
          /\ outcome'.err = "ProtocolValidation"
          /\ task_states' = task_states
          /\ ~Completed(task_states', s)
      ]_vars

\* A joint task has just failed on its second output, the first being valid.
C11_Witness ==
    /\ pc = "idle" /\ outcome.op = "resolve" /\ outcome.err = "ProtocolValidation"
    /\ evaluated # 0
    /\ Len(task_states[evaluated].task.keys) = 2
    /\ CountOf(events, "validate", task_states[evaluated].task.keys[2]) = 1
    /\ ~Completed(task_states, evaluated)
\* The names a set of entity names reaches through declared dependencies
\* in at most k steps.
RECURSIVE ReachedFrom(_, _, _)
ReachedFrom(f, S, k) ==
    IF k = 0 THEN S
    ELSE ReachedFrom(f,
            S \cup UNION {SeqToSet(f.providers_by_name[n].deps) :
                            n \in S \cap DOMAIN f.providers_by_name},
            k - 1)

\* The providers' declared dependencies contain a cycle.
Cyclic(f) ==
    \E n \in DOMAIN f.providers_by_name :
        n \in ReachedFrom(f, SeqToSet(f.providers_by_name[n].deps),
                          Cardinality(DOMAIN f.providers_by_name))

\* C12: when the declared dependencies contain a cycle, every call that
\* builds the graph ends with the CycleDetected error.
C12_CycleDetected ==
    (Cyclic(flow) /\ pc = "idle" /\ outcome.op # "") => outcome.err = "CycleDetected"
\* C13: the graph export_dag(include_core=False) returns has no node of an
\* internal entity and no edge into or out of one.
C13_ExportHidesCore ==
    (pc = "idle" /\ outcome.op = "export_dag" /\ outcome.err = ""
        /\ ~outcome.include_core)
    =>
    LET graph == Get(outcome.graph)
    IN /\ \A k \in DOMAIN graph.nodes : ~EntityIsInternal(k.entity_name)
       /\ \A e \in graph.edges :
             ~EntityIsInternal(e[1].entity_name) /\ ~EntityIsInternal(e[2].entity_name)
\* C14: in every state, full-ready implies bootstrap-ready (the graph built
\* and the task states wired to their dependencies) and a persistent cache
\* adopted from the completed core__persistent_cache; the full-ready flag is
\* set only at the end of the bootstrap resolution; and neither level is
\* lost during a resolver's lifetime, a failed call included.
C14_StagedReadiness ==
    /\ [](is_ready_for_full_resolution =>
            /\ is_ready_for_bootstrap_resolution
            /\ persistent_cache # None
            /\ \A s \in Producing(PersistentCacheName) : Completed(task_states, s))
    /\ [](is_ready_for_bootstrap_resolution =>
            /\ task_lists_by_entity_name # None
            /\ DOMAIN task_lists_by_entity_name = DOMAIN flow.providers_by_name
            /\ \A s \in LiveStates :
                  /\ DepStates(s) = DepKeyStates(s)
                  /\ \A p \in DepStates(s) : s \in SeqToSet(task_states[p].children))
    /\ [][(~is_ready_for_full_resolution /\ is_ready_for_full_resolution') =>
            /\ pc = "loop" /\ call.phase = "bootstrap" /\ ready_task_states = <<>>
            /\ is_ready_for_bootstrap_resolution
            /\ \A s \in Producing(PersistentCacheName) : Completed(task_states, s)
          ]_vars
    /\ [][(\/ (is_ready_for_bootstrap_resolution /\ ~is_ready_for_bootstrap_resolution')
            \/ (is_ready_for_full_resolution /\ ~is_ready_for_full_resolution'))
           => (outcome # NoOutcome /\ outcome' = NoOutcome /\ task_states' = <<>>)
          ]_vars

\* A resolve has failed on a full-ready resolver, which stays full-ready.
C14_Witness ==
    /\ pc = "idle" /\ outcome.op = "resolve"
    /\ outcome.err \in {"ComputeFailure", "ProtocolValidation"}
    /\ is_ready_for_full_resolution
    /\ is_ready_for_bootstrap_resolution
    /\ persistent_cache # None
\* The position of the first event of an operation, 0 if there is none.
FirstOf(evs, op) ==
    IF Did(evs, op) THEN CHOOSE i \in DOMAIN evs :
                            evs[i].op = op /\ \A j \in 1 .. i - 1 : evs[j].op # op
    ELSE 0

\* C15: when a should_persist task is evaluated and the cache lacks an entry
\* for at least one of its output queries, compute is invoked, and if the
\* evaluation succeeds every output, those whose load had succeeded
\* included, is saved after the computation and installed as reloaded from
\* that save.
C15_NoPartialReuse ==
    [][\A s \in DOMAIN task_states :
          (/\ evaluated' = s
           /\ ProviderOf(s).should_persist
           /\ is_ready_for_full_resolution
           /\ DepsComplete(s)
           /\ \E q \in SeqToSet(QueriesOf(s)) : q \notin DOMAIN store)
          =>
          /\ CountOf(events', "compute", task_states[s].task.keys[1]) = 1
          /\ compute_count'[s] = Counted(compute_count, s)[s]
          /\ Completed(task_states', s) =>
                \A i \in DOMAIN task_states[s].task.keys :
                    LET key == task_states[s].task.keys[i]
                        query == QueriesOf(s)[i]
                        installed == Get(task_states'[s].results_by_name)[key.entity_name]
                    IN /\ \E j \in DOMAIN events' :
                             /\ events'[j] = Event("save", key)
                             /\ j > FirstOf(events', "compute")
                             /\ \A l \in DOMAIN events' :
                                   events'[l] = Event("save", key) => l = j
                       /\ store'[query] = Serialize(ComputedValues(s)[i])
                       /\ installed = [query |-> query, value |-> Deserialize(store'[query])]
      ]_vars

\* A joint task has just been computed and saved after the load of its first
\* output had succeeded and the load of its second had not.
C15_Witness ==
    /\ evaluated # 0
    /\ Len(task_states[evaluated].task.keys) = 2
    /\ Completed(task_states, evaluated)
    /\ CountOf(events, "log_loaded", task_states[evaluated].task.keys[1]) = 1
    /\ CountOf(events, "log_loaded", task_states[evaluated].task.keys[2]) = 0
    /\ Did(events, "compute")
    /\ CountOf(events, "save", task_states[evaluated].task.keys[1]) = 1
\* The value the flow determines for output i of a state's task: what
\* compute returns on the values determined for its dependencies, as the
\* persistent cache reads it back if the provider persists.
RECURSIVE ExpectedValue(_, _)
ExpectedValue(s, i) ==
    LET task == task_states[s].task
        DepValue(k) ==
            LET d == task_states_by_key[k]
            IN ExpectedValue(d, CHOOSE n \in DOMAIN task_states[d].task.keys :
                                    task_states[d].task.keys[n].entity_name = k.entity_name)
        raw == Compute(task, [j \in DOMAIN task.dep_keys |-> DepValue(task.dep_keys[j])])[i]
    IN IF ProviderOf(s).should_persist THEN Deserialize(Serialize(raw)) ELSE raw

\* The states a resolution of an entity needs: those producing it and
\* those they depend on.
Needed(entity_name) ==
    Producing(entity_name) \cup UNION {Ancestors(s) : s \in Producing(entity_name)}

\* C16: whatever position of the work-list each pass takes its state from,
\* every completed state holds the results the flow determines, a resolve
\* that returns yields those values for the entity in the order of its
\* tasks, leaves complete exactly the states that were complete or that the
\* entity needs, and no order trips the loop's assertions.
C16_OrderIndependent ==
    /\ [](\A s \in LiveStates :
            Completed(task_states, s) =>
                \A i \in DOMAIN task_states[s].task.keys :
                    Get(task_states[s].results_by_name)
                        [task_states[s].task.keys[i].entity_name].value = ExpectedValue(s, i))
    /\ []((pc = "idle" /\ outcome.op = "resolve" /\ outcome.err = "") =>
            /\ outcome.values =
                  [n \in DOMAIN task_lists_by_entity_name[outcome.entity_name] |->
                     LET task == task_lists_by_entity_name[outcome.entity_name][n]
                     IN ExpectedValue(task_states_by_key[task.keys[1]],
                            CHOOSE i \in DOMAIN task.keys :
                                task.keys[i].entity_name = outcome.entity_name)]
            /\ \A s \in Needed(outcome.entity_name) : Completed(task_states, s))
    /\ [](outcome.err \notin {"AssertionError:blocked", "AssertionError:incomplete",
                               "AssertionError:is_blocked", "AssertionError:len",
                               "TypeError", "ValueError"})
    /\ [][\A s \in DOMAIN task_states \cap DOMAIN task_states' :
            (~Completed(task_states, s) /\ Completed(task_states', s)) =>
                (pc = "loop" /\ s \in Needed(LoopEntity))
          ]_vars

\* The loop of a resolve of an entity with two tasks has ended, and the
\* state evaluated last is the one of the second task: the stack discipline
\* evaluates that one first.
C16_Witness ==
    /\ pc = "loop" /\ call.op = "resolve" /\ call.phase = "main"
    /\ ready_task_states = <<>>
    /\ blocked_task_key_tuples = {}
    /\ Len(requested_task_states) = 2
    /\ requested_task_states[1] # requested_task_states[2]
    /\ evaluated = requested_task_states[2]
    /\ \A i \in {1, 2} : Completed(task_states, requested_task_states[i])
    /\ DepStates(requested_task_states[1]) # {}
\* The states whose evaluation was attempted and failed.
HasFailed == {s \in LiveStates : compute_count[s] > 0 /\ ~Completed(task_states, s)}

\* A call that fails in the evaluation of a task (its compute or its
\* validation raised, or the evaluation was refused) leaves the failed state
\* incomplete and every other state as it was, the completed ones with
\* their results.
FailureKeepsStates ==
    (pc = "loop" /\ pc' = "idle" /\ outcome'.err # "" /\ evaluated' # 0)
    =>
    /\ evaluated' \in DOMAIN task_states
    /\ ~Completed(task_states', evaluated')
    /\ \A s \in DOMAIN task_states :
          /\ s # evaluated' => task_states'[s] = task_states[s]
          /\ Completed(task_states, s) =>
                 task_states'[s].results_by_name = task_states[s].results_by_name

\* A resolve has ended on a resolver that holds a failed state, for an
\* entity none of whose tasks needs a failed state.
UnaffectedResolve ==
    /\ pc = "idle" /\ outcome.op = "resolve"
    /\ outcome.entity_name \in DOMAIN task_lists_by_entity_name
    /\ HasFailed # {}
    /\ Needed(outcome.entity_name) \cap HasFailed = {}

\* The step that ends a resolve begun after a failure: a state that failed in
\* an earlier call is still incomplete, and no task of the entity needs a
\* state that has failed, before or in this call.
LaterUnaffectedResolve ==
    /\ pc = "loop" /\ pc' = "idle" /\ outcome'.op = "resolve"
    /\ outcome'.entity_name \in DOMAIN task_lists_by_entity_name
    /\ HasFailed # {}
    /\ Needed(outcome'.entity_name) \cap (HasFailed \cup HasFailed') = {}

\* The resolve returns normally and every state it needs is complete.
Succeeds ==
    /\ outcome'.err = ""
    /\ \A s \in Needed(outcome'.entity_name) : Completed(task_states', s)

\* C17, as stated: a failed call leaves the failed state incomplete and
\* every completed state complete with its results, and a later resolve of
\* an entity none of whose tasks transitively depends on the failed task
\* succeeds.
C17_PartialStateRetained ==
    /\ [][FailureKeepsStates]_vars
    /\ [][LaterUnaffectedResolve => Succeeds]_vars

\* C17, amended: a failed call leaves the failed state incomplete and every
\* completed state complete with its results; a later resolve of an
\* entity that needs no failed state succeeds when it ends on a resolver
\* that is ready for full resolution; and a resolve that ends on a
\* resolver that is not ready for full resolution has failed, whatever
\* entity it asked for, since every call re-runs the bootstrap resolution
\* until it succeeds.
C17_RetainedWhenFullReady ==
    /\ [][FailureKeepsStates]_vars
    /\ [][(LaterUnaffectedResolve /\ is_ready_for_full_resolution') => Succeeds]_vars
    /\ []((UnaffectedResolve /\ is_ready_for_full_resolution)
           =>
           /\ outcome.err = ""
           /\ \A s \in Needed(outcome.entity_name) : Completed(task_states, s))
    /\ []((pc = "idle" /\ outcome.op = "resolve" /\ ~is_ready_for_full_resolution)
           => outcome.err # "")

\* After a task's compute raised, a resolve of an entity that does not need
\* that task has returned, having computed a state the failed call had left
\* incomplete.
C17_Witness ==
    /\ pc = "idle" /\ outcome.op = "resolve" /\ outcome.err = ""
    /\ is_ready_for_full_resolution
    /\ HasFailed # {}
    /\ Needed(outcome.entity_name) \cap HasFailed = {}
    /\ \E s \in Producing(outcome.entity_name), f \in HasFailed :
          /\ DepStates(s) \cap DepStates(f) # {}
          /\ compute_count[s] = 1
\* The Provenance an evaluation of a state builds from given dependency
\* results.
ProvenanceOf(s, dep_results) ==
    ProvenanceFromComputation(ProviderOf(s), task_states[s].task.keys[1].case_key,
                              dep_results)

\* C18: the Provenance of an evaluation records the provenance of each of
\* the task's dep_keys: had the result of any one dep_key come with another
\* provenance (its provider's code changed), the Provenance built for the
\* task would differ.
C18_ProvenanceRecordsDeps ==
    \A s \in LiveStates :
        DepsComplete(s) =>
            LET dep_results == DepResults(task_states, task_states_by_key, task_states[s].task)
            IN \A j \in DOMAIN dep_results :
                  ProvenanceOf(s, [dep_results EXCEPT ![j].query.provenance.code_id = <<0, 0>>])
                      # ProvenanceOf(s, dep_results)
\* The first output of a state's task whose computed value its protocol
\* rejects.
FirstRejected(s) ==
    CHOOSE i \in DOMAIN task_states[s].task.keys :
        /\ ComputedValues(s)[i]
              \in ProtocolForName(ProviderOf(s), task_states[s].task.keys[i].entity_name)
        /\ \A j \in 1 .. i - 1 :
              ComputedValues(s)[j]
                \notin ProtocolForName(ProviderOf(s), task_states[s].task.keys[j].entity_name)

\* C19 as stated: an evaluation of a should_persist task that fails protocol
\* validation has saved nothing and leaves the persistent cache as it was.
C19_FailedPersistsNothing ==
    [][\A s \in DOMAIN task_states :
          (/\ evaluated' = s
           /\ ProviderOf(s).should_persist
           /\ pc' = "idle" /\ outcome'.err = "ProtocolValidation")
          =>
          /\ ~Did(events', "save")
          /\ store' = store
      ]_vars

\* C19 amended: an evaluation of a should_persist task that fails protocol
\* validation has saved neither the rejected output nor any output after
\* it; each output before it, validated already, has been saved once, and
\* the cache differs from what it was in those entries only.
C19_RejectedNotSaved ==
    [][\A s \in DOMAIN task_states :
          (/\ evaluated' = s
           /\ ProviderOf(s).should_persist
           /\ pc' = "idle" /\ outcome'.err = "ProtocolValidation")
          =>
          /\ Rejected(s)
          /\ \A i \in DOMAIN task_states[s].task.keys :
                LET key == task_states[s].task.keys[i]
                    query == QueriesOf(s)[i]
                IN IF i < FirstRejected(s)
                   THEN /\ CountOf(events', "save", key) = 1
                        /\ query \in DOMAIN store'
                        /\ store'[query] = Serialize(ComputedValues(s)[i])
                   ELSE /\ CountOf(events', "save", key) = 0
                        /\ query \in DOMAIN store' => 
                              (query \in DOMAIN store /\ store'[query] = store[query])
          /\ \A q \in DOMAIN store : q \in DOMAIN store'
          /\ \A q \in DOMAIN store' :
                q \notin SeqToSet(QueriesOf(s)) => (q \in DOMAIN store /\ store'[q] = store[q])
      ]_vars

\* A joint task has just failed validation on its second output with its
\* first output saved in the cache, which did not hold it before.
C19_Witness ==
    /\ pc = "idle" /\ outcome.err = "ProtocolValidation"
    /\ evaluated # 0
    /\ ProviderOf(evaluated).should_persist
    /\ FirstRejected(evaluated) = 2
    /\ CountOf(events, "save", task_states[evaluated].task.keys[1]) = 1
    /\ ~Did(events, "log_loaded")
    /\ QueriesOf(evaluated)[1] \in DOMAIN store
    /\ QueriesOf(evaluated)[2] \notin DOMAIN store
\* The cache holds an entry for each of the first n output queries of a
\* state's task.
HitsUpTo(s, n) == \A j \in 1 .. n : QueriesOf(s)[j] \in DOMAIN store

\* C20 as stated: an evaluation that logs 'Loaded ... from file cache' for
\* any key of the task invokes no compute and logs neither 'Computing' nor
\* 'Computed'.
C20_LoadedMeansCached ==
    [][\A s \in DOMAIN task_states :
          (evaluated' = s /\ Did(events', "log_loaded"))
          =>
          /\ ~Did(events', "compute")
          /\ ~Did(events', "log_computing")
          /\ ~Did(events', "log_computed")
      ]_vars

\* C20 amended: in the evaluation of a should_persist task on a full-ready
\* resolver, 'Loaded' is logged for a key exactly when the load of its
\* query and of every query before it returned a result, and it is logged
\* in no other evaluation; an evaluation that
\* logs it for every key of the task takes its results from the cache,
\* with no compute, 'Computing' or 'Computed'; one that logs it for some
\* keys only goes on to compute, and logs 'Computing' and, if it succeeds,
\* 'Computed' for every key, those logged as loaded included.
C20_LoadedPerQuery ==
    [][\A s \in DOMAIN task_states :
          (/\ evaluated' = s
           /\ \/ Did(events', "log_loaded")
              \/ (/\ ProviderOf(s).should_persist /\ is_ready_for_full_resolution
                  /\ HitsUpTo(s, 1)))
          =>
          LET keys == task_states[s].task.keys
              AllLoaded == \A i \in DOMAIN keys : CountOf(events', "log_loaded", keys[i]) = 1
          IN /\ ProviderOf(s).should_persist /\ is_ready_for_full_resolution
             /\ \A i \in DOMAIN keys :
                   CountOf(events', "log_loaded", keys[i]) = (IF HitsUpTo(s, i) THEN 1 ELSE 0)
             /\ AllLoaded =>
                   /\ ~Did(events', "compute")
                   /\ ~Did(events', "log_computing")
                   /\ ~Did(events', "log_computed")
                   /\ Completed(task_states', s)
             /\ ~AllLoaded =>
                   /\ CountOf(events', "compute", keys[1]) = 1
                   /\ \A i \in DOMAIN keys :
                         /\ ~task_states[s].task.is_simple_lookup =>
                                CountOf(events', "log_computing", keys[i]) = 1
                         /\ (Completed(task_states', s)
                                /\ ~task_states[s].task.is_simple_lookup) =>
                                CountOf(events', "log_computed", keys[i]) = 1
      ]_vars

\* A joint task has just been computed after 'Loaded' was logged for its
\* first output: that output is logged as loaded and as computed.
C20_Witness ==
    /\ evaluated # 0
    /\ Completed(task_states, evaluated)
    /\ CountOf(events, "log_loaded", task_states[evaluated].task.keys[1]) = 1
    /\ CountOf(events, "log_computing", task_states[evaluated].task.keys[1]) = 1
    /\ CountOf(events, "log_computed", task_states[evaluated].task.keys[1]) = 1
====
